---- MODULE Spec2Model ----
(***************************************************************************)
(* Project mutation service (src/services/project/project-mutation.service *)
(* .ts): createNewProject, updateProject, updateProjectStatus and          *)
(* deleteProject over the remote "projects" collection and the image       *)
(* store.  Every await of the source is one step of the calling process,   *)
(* so calls of different callers interleave between their remote calls.    *)
(***************************************************************************)
EXTENDS Naturals, Sequences, FiniteSets, TLC

\* ------------------------------------------------------------------ bounds
MaxCalls == 3       \* invocations of the four operations in one behaviour
MaxProjects == 1    \* rows the store can be asked to insert (ids it assigns)
MaxUploads == 2     \* calls that carry an image file (urls the image store hands out)

\* ------------------------------------------------------------------ values
Procs == {"c1", "c2"}          \* concurrent callers
Users == {"u1", "u2"}
UserIds == Users \cup {""}     \* "" is the empty (falsy) id
IdNames == <<"p1", "p2", "p3">>
ProjectIds == {IdNames[i] : i \in 1..MaxProjects}
UrlNames == <<"a1", "a2", "a3", "a4">>

Null == "null"
Undefined == "undefined"
NullMembers == {Null}          \* a members value of null (not an array)
EmptyObj == [f \in {} |-> Null]

\* JavaScript truthiness of a scalar (string, null or undefined)
Truthy(v) == v \notin {Null, Undefined, ""}

\* o.f of a JavaScript object: undefined when the property is absent
Get(o, f) == IF f \in DOMAIN o THEN o[f] ELSE Undefined

\* a || b on scalars
OrElse(a, b) == IF Truthy(a) THEN a ELSE b

\* projectData.members || []
MembersOrEmpty(o) ==
    IF "members" \in DOMAIN o /\ o["members"] # NullMembers THEN o["members"] ELSE {}

\* { ...a, ...b }: the properties of b win
Merge(a, b) ==
    [f \in (DOMAIN a) \cup (DOMAIN b) |-> IF f \in DOMAIN b THEN b[f] ELSE a[f]]

\* delete o.f
Without(o, f) == [g \in (DOMAIN o) \ {f} |-> o[g]]

\* ------------------------------------------------------------------ state
VARIABLES
    store,      \* the projects collection: id -> row, for the rows that exist
    assets,     \* urls of the image assets that exist in the image store
    nextId,     \* ids the store has assigned so far
    nextUrl,    \* urls the image store has handed out so far
    calls,      \* invocations started
    creates,    \* createNewProject invocations started
    imageCalls, \* invocations started that carry an image
    proc        \* per caller: position in its current invocation and its locals

vars == <<store, assets, nextId, nextUrl, calls, creates, imageCalls, proc>>

NoResult == [kind |-> "none", value |-> Null]
Returned(v) == [kind |-> "returned", value |-> v]
Thrown(e) == [kind |-> "thrown", value |-> e]

Idle ==
    [pc |-> "idle", op |-> "none", projectId |-> "", userId |-> "", caller |-> "",
     data |-> EmptyObj, existing |-> EmptyObj, imageUrl |-> Null,
     log |-> <<>>, result |-> NoResult]

Init ==
    /\ store = EmptyObj
    /\ assets = {}
    /\ nextId = 0
    /\ nextUrl = 0
    /\ calls = 0
    /\ creates = 0
    /\ imageCalls = 0
    /\ proc = [p \in Procs |-> Idle]

\* a remote call recorded in the invocation's log
Entry(call, arg, ret, error) == [call |-> call, arg |-> arg, ret |-> ret, error |-> error]
Logged(p, call, arg, ret, error) == Append(proc[p].log, Entry(call, arg, ret, error))

\* the (data, error) pair of a store call: data that may come with a non-null error
ErrorData(withData, row) == IF withData THEN row ELSE EmptyObj
RowOrNone(id) == IF id \in DOMAIN store THEN store[id] ELSE EmptyObj

\* ------------------------------------------------------- image store helper
\* uploadProjectImage(ownerId, file) -> url
UploadedUrl == UrlNames[nextUrl + 1]

\* ------------------------------------------------------------ input domains
CreateData ==
    { [title |-> "A", description |-> "d"],
      [title |-> "A", description |-> "d", members |-> {"u2"}, image |-> "f2"],
      [title |-> "", description |-> "d", status |-> "", start_date |-> "",
       end_date |-> Null, members |-> NullMembers, image |-> Null],
      [title |-> "B", description |-> "e", status |-> "completed",
       timeline_status |-> "delayed", start_date |-> "2024-01-01",
       end_date |-> "2024-12-31", members |-> {"u2"}] }

UpdateData ==
    { [status |-> "completed"],
      [image |-> "f1"],
      [members |-> NullMembers],
      [created_by |-> "u2"] }

\* userId of a createNewProject call
CreateUsers == {"", "u1"}

\* <<projectId, userId>> of an updateProject call
UpdateIds == {<<"", "u1">>} \cup (ProjectIds \X UserIds)

Statuses == {"completed"}

HasImage(data) == Truthy(Get(data, "image"))

\* a call may start while the bounds leave room for it
CanStart(p, withImage) ==
    /\ proc[p].pc = "idle"
    /\ calls < MaxCalls
    /\ withImage => imageCalls < MaxUploads

Started(withImage) ==
    /\ calls' = calls + 1
    /\ imageCalls' = IF withImage THEN imageCalls + 1 ELSE imageCalls

\* ---------------------------------------------------------- createNewProject
\* lines 9-16: validation, then either the upload or straight to the insert
CallCreate(p, userId, data) ==
    /\ CanStart(p, HasImage(data))
    /\ creates < MaxProjects
    /\ Started(HasImage(data))
    /\ creates' = creates + 1
    /\ proc' = [proc EXCEPT ![p] =
            [Idle EXCEPT
                !.op = "create", !.userId = userId, !.caller = userId, !.data = data,
                !.pc = IF ~Truthy(userId) THEN "done"
                       ELSE IF HasImage(data) THEN "create_upload" ELSE "create_insert",
                !.result = IF ~Truthy(userId)
                           THEN Thrown("User ID is required to create a project")
                           ELSE NoResult]]
    /\ UNCHANGED <<store, assets, nextId, nextUrl>>

\* line 15: imageUrl = await uploadProjectImage(userId, projectData.image)
CreateUpload(p) ==
    /\ proc[p].pc = "create_upload"
    /\ \E ok \in BOOLEAN :
        LET arg == <<proc[p].userId, proc[p].data["image"]>> IN
        IF ok
        THEN /\ assets' = assets \cup {UploadedUrl}
             /\ nextUrl' = nextUrl + 1
             /\ proc' = [proc EXCEPT ![p].imageUrl = UploadedUrl,
                                     ![p].log = Logged(p, "image_upload", arg, UploadedUrl, Null),
                                     ![p].pc = "create_insert"]
        ELSE /\ UNCHANGED <<assets, nextUrl>>
             /\ proc' = [proc EXCEPT ![p].log = Logged(p, "image_upload", arg, Null, "uploadError"),
                                     ![p].result = Thrown("uploadError"),
                                     ![p].pc = "done"]
    /\ UNCHANGED <<store, nextId, calls, creates, imageCalls>>

\* lines 18-28 with the two defaults exchanged
NewProjectSwappedDefaults(userId, data, imageUrl) ==
    [title |-> Get(data, "title"),
     description |-> Get(data, "description"),
     status |-> OrElse(Get(data, "status"), "ongoing"),
     timeline_status |-> OrElse(Get(data, "timeline_status"), "planning"),
     start_date |-> OrElse(Get(data, "start_date"), Null),
     end_date |-> OrElse(Get(data, "end_date"), Null),
     created_by |-> userId,
     members |-> MembersOrEmpty(data),
     image_url |-> imageUrl]

\* lines 18-28
NewProject(userId, data, imageUrl) ==
    [title |-> Get(data, "title"),
     description |-> Get(data, "description"),
     status |-> OrElse(Get(data, "status"), "planning"),
     timeline_status |-> OrElse(Get(data, "timeline_status"), "ongoing"),
     start_date |-> OrElse(Get(data, "start_date"), Null),
     end_date |-> OrElse(Get(data, "end_date"), Null),
     created_by |-> userId,
     members |-> MembersOrEmpty(data),
     image_url |-> imageUrl]

\* lines 30-38: insert([newProject]).select('*').single()
CreateInsert(p) ==
    /\ proc[p].pc = "create_insert"
    /\ LET row == NewProject(proc[p].userId, proc[p].data, proc[p].imageUrl)
           id == IdNames[nextId + 1]
           stored == Merge(row, [id |-> id])
       IN \E ok \in BOOLEAN, withData \in BOOLEAN :
            IF ok
            THEN /\ store' = Merge(store, [i \in {id} |-> stored])
                 /\ nextId' = nextId + 1
                 /\ proc' = [proc EXCEPT ![p].log = Logged(p, "insert", row, stored, Null),
                                         ![p].result = Returned(stored),
                                         ![p].pc = "done"]
            ELSE /\ UNCHANGED <<store, nextId>>
                 /\ proc' = [proc EXCEPT ![p].log = Logged(p, "insert", row, ErrorData(withData, stored), "insertError"),
                                         ![p].result = Thrown("insertError"),
                                         ![p].pc = "done"]
    /\ UNCHANGED <<assets, nextUrl, calls, creates, imageCalls>>

\* ------------------------------------------------------- image store helper
\* deleteProjectImage(url): the asset is gone afterwards
AssetsAfterDelete(url) == assets \ {url}

\* ------------------------------------------------------------- updateProject
\* lines 44-46 without the userId test
UpdateValidationProjectOnly(projectId, userId) ==
    IF ~Truthy(projectId) THEN "Project ID is required to update a project" ELSE Null

\* lines 44-46: validation, then the fetch
UpdateValidation(projectId, userId) ==
    IF ~Truthy(projectId) THEN "Project ID is required to update a project"
    ELSE IF ~Truthy(userId) THEN "User ID is required to update a project"
    ELSE Null

CallUpdate(p, projectId, userId, data) ==
    /\ CanStart(p, HasImage(data))
    /\ Started(HasImage(data))
    /\ LET invalid == UpdateValidation(projectId, userId) IN
       proc' = [proc EXCEPT ![p] =
            [Idle EXCEPT
                !.op = "update", !.projectId = projectId, !.userId = userId,
                !.caller = userId, !.data = data,
                !.pc = IF invalid # Null THEN "done" ELSE "update_fetch",
                !.result = IF invalid # Null THEN Thrown(invalid) ELSE NoResult]]
    /\ UNCHANGED <<store, assets, nextId, nextUrl, creates>>

\* existingProject.members?.includes(userId)
MembersIncludes(row, userId) ==
    /\ "members" \in DOMAIN row
    /\ row["members"] # NullMembers
    /\ userId \in row["members"]

\* line 58 with the "!" before the members test dropped
AuthorizedDroppedNot(row, userId) ==
    ~(row["created_by"] # userId /\ MembersIncludes(row, userId))

\* line 58, negated: the caller may update the row
Authorized(row, userId) ==
    row["created_by"] = userId \/ MembersIncludes(row, userId)

\* lines 62-71 without the delete of the old image
AfterFetchUploadFirst(data, imageUrl) ==
    IF HasImage(data) THEN "update_upload" ELSE "update_write"

\* lines 62-71: the remote call that follows a permitted fetch
AfterFetch(data, imageUrl) ==
    IF HasImage(data)
    THEN IF Truthy(imageUrl) THEN "update_delete_image" ELSE "update_upload"
    ELSE "update_write"

\* lines 49-60: select('*').eq('id', projectId).single(), then the permission check
UpdateFetch(p) ==
    /\ proc[p].pc = "update_fetch"
    /\ LET id == proc[p].projectId IN
       \E ok \in BOOLEAN, withData \in BOOLEAN :
        IF ok /\ id \in DOMAIN store
        THEN LET row == store[id] IN
             IF ~Authorized(row, proc[p].userId)
             THEN proc' = [proc EXCEPT
                    ![p].log = Logged(p, "fetch", id, row, Null),
                    ![p].existing = row,
                    ![p].result = Thrown("You don't have permission to update this project"),
                    ![p].pc = "done"]
             ELSE proc' = [proc EXCEPT
                    ![p].log = Logged(p, "fetch", id, row, Null),
                    ![p].existing = row,
                    ![p].imageUrl = row["image_url"],
                    ![p].pc = AfterFetch(proc[p].data, row["image_url"])]
        ELSE proc' = [proc EXCEPT
                    ![p].log = Logged(p, "fetch", id, ErrorData(withData, RowOrNone(id)), "fetchError"),
                    ![p].result = Thrown("fetchError"),
                    ![p].pc = "done"]
    /\ UNCHANGED <<store, assets, nextId, nextUrl, calls, creates, imageCalls>>

\* line 67 with a failed delete of the old image caught and ignored
UpdateDeleteImageBestEffort(p) ==
    /\ proc[p].pc = "update_delete_image"
    /\ LET url == proc[p].imageUrl IN
       \E ok \in BOOLEAN :
        IF ok
        THEN /\ assets' = AssetsAfterDelete(url)
             /\ proc' = [proc EXCEPT ![p].log = Logged(p, "image_delete", url, Null, Null),
                                     ![p].pc = "update_upload"]
        ELSE /\ UNCHANGED assets
             /\ proc' = [proc EXCEPT
                    ![p].log = Logged(p, "image_delete", url, Null, "imageDeleteError"),
                    ![p].pc = "update_upload"]
    /\ UNCHANGED <<store, nextId, nextUrl, calls, creates, imageCalls>>

\* line 67: await deleteProjectImage(imageUrl)
UpdateDeleteImage(p) ==
    /\ proc[p].pc = "update_delete_image"
    /\ LET url == proc[p].imageUrl IN
       \E ok \in BOOLEAN :
        IF ok
        THEN /\ assets' = AssetsAfterDelete(url)
             /\ proc' = [proc EXCEPT ![p].log = Logged(p, "image_delete", url, Null, Null),
                                     ![p].pc = "update_upload"]
        ELSE /\ UNCHANGED assets
             /\ proc' = [proc EXCEPT
                    ![p].log = Logged(p, "image_delete", url, Null, "imageDeleteError"),
                    ![p].result = Thrown("imageDeleteError"),
                    ![p].pc = "done"]
    /\ UNCHANGED <<store, nextId, nextUrl, calls, creates, imageCalls>>

\* line 70: imageUrl = await uploadProjectImage(userId, projectData.image)
UpdateUpload(p) ==
    /\ proc[p].pc = "update_upload"
    /\ \E ok \in BOOLEAN :
        LET arg == <<proc[p].userId, proc[p].data["image"]>> IN
        IF ok
        THEN /\ assets' = assets \cup {UploadedUrl}
             /\ nextUrl' = nextUrl + 1
             /\ proc' = [proc EXCEPT ![p].imageUrl = UploadedUrl,
                                     ![p].log = Logged(p, "image_upload", arg, UploadedUrl, Null),
                                     ![p].pc = "update_write"]
        ELSE /\ UNCHANGED <<assets, nextUrl>>
             /\ proc' = [proc EXCEPT ![p].log = Logged(p, "image_upload", arg, Null, "uploadError"),
                                     ![p].result = Thrown("uploadError"),
                                     ![p].pc = "done"]
    /\ UNCHANGED <<store, nextId, calls, creates, imageCalls>>

\* lines 73-79 sending image_url only when a new image was uploaded
UpdatePayloadImageOnlyIfNew(data, imageUrl) ==
    IF HasImage(data)
    THEN Without(Merge(data, [image_url |-> imageUrl]), "image")
    ELSE Without(data, "image")

\* lines 73-79: { ...projectData, image_url: imageUrl } without the file
UpdatePayload(data, imageUrl) ==
    Without(Merge(data, [image_url |-> imageUrl]), "image")

\* the rows after update(payload) on the row with this id
StoreAfterUpdate(id, payload) ==
    [store EXCEPT ![id] = Merge(store[id], payload)]

\* lines 81-90: update(updateData).eq('id', projectId).select('*').single()
UpdateWrite(p) ==
    /\ proc[p].pc = "update_write"
    /\ LET id == proc[p].projectId
           payload == UpdatePayload(proc[p].data, proc[p].imageUrl)
       IN \E ok \in BOOLEAN, withData \in BOOLEAN :
            IF ok /\ id \in DOMAIN store
            THEN /\ store' = StoreAfterUpdate(id, payload)
                 /\ proc' = [proc EXCEPT
                        ![p].log = Logged(p, "update", <<id, payload>>, Merge(store[id], payload), Null),
                        ![p].result = Returned(Merge(store[id], payload)),
                        ![p].pc = "done"]
            ELSE /\ UNCHANGED store
                 /\ proc' = [proc EXCEPT
                        ![p].log = Logged(p, "update", <<id, payload>>,
                                        ErrorData(withData, RowOrNone(id)), "updateError"),
                        ![p].result = Thrown("updateError"),
                        ![p].pc = "done"]
    /\ UNCHANGED <<assets, nextId, nextUrl, calls, creates, imageCalls>>

\* ------------------------------------------------------- updateProjectStatus
\* line 96: no validation and no permission check; caller is whoever invokes it
CallStatus(p, caller, projectId, status) ==
    /\ CanStart(p, FALSE)
    /\ Started(FALSE)
    /\ proc' = [proc EXCEPT ![p] =
            [Idle EXCEPT
                !.op = "status", !.projectId = projectId, !.caller = caller,
                !.data = [status |-> status], !.pc = "status_write"]]
    /\ UNCHANGED <<store, assets, nextId, nextUrl, creates>>

\* lines 97-106: update({ status }).match({ id: projectId }).select('*').single()
StatusWrite(p) ==
    /\ proc[p].pc = "status_write"
    /\ LET id == proc[p].projectId
           payload == [status |-> proc[p].data["status"]]
       IN \E ok \in BOOLEAN, withData \in BOOLEAN :
            IF ok /\ id \in DOMAIN store
            THEN /\ store' = StoreAfterUpdate(id, payload)
                 /\ proc' = [proc EXCEPT
                        ![p].log = Logged(p, "update", <<id, payload>>, Merge(store[id], payload), Null),
                        ![p].result = Returned(Merge(store[id], payload)),
                        ![p].pc = "done"]
            ELSE /\ UNCHANGED store
                 /\ proc' = [proc EXCEPT
                        ![p].log = Logged(p, "update", <<id, payload>>,
                                        ErrorData(withData, RowOrNone(id)), "updateError"),
                        ![p].result = Thrown("updateError"),
                        ![p].pc = "done"]
    /\ UNCHANGED <<assets, nextId, nextUrl, calls, creates, imageCalls>>

\* -------------------------------------------------------------- deleteProject
\* line 112: no validation
CallDelete(p, projectId) ==
    /\ CanStart(p, FALSE)
    /\ Started(FALSE)
    /\ proc' = [proc EXCEPT ![p] =
            [Idle EXCEPT
                !.op = "delete", !.projectId = projectId,
                !.pc = "delete_fetch"]]
    /\ UNCHANGED <<store, assets, nextId, nextUrl, creates>>

\* line 126: project && project.image_url && typeof project.image_url === 'string'
HasImageToDelete(project) ==
    /\ project # EmptyObj
    /\ Truthy(Get(project, "image_url"))

\* lines 125-128 without the delete of the image
AfterDeleteFetchSkipImage(project) == "delete_record"

\* lines 125-128: the remote call that follows a fetch without error
AfterDeleteFetch(project) ==
    IF HasImageToDelete(project) THEN "delete_image" ELSE "delete_record"

\* lines 114-123: select('*').eq('id', projectId).maybeSingle()
DeleteFetch(p) ==
    /\ proc[p].pc = "delete_fetch"
    /\ LET id == proc[p].projectId
           project == IF id \in DOMAIN store THEN store[id] ELSE EmptyObj
       IN \E ok \in BOOLEAN, withData \in BOOLEAN :
            IF ok
            THEN proc' = [proc EXCEPT
                    ![p].log = Logged(p, "fetch", id, project, Null),
                    ![p].existing = project,
                    ![p].pc = AfterDeleteFetch(project)]
            ELSE proc' = [proc EXCEPT
                    ![p].log = Logged(p, "fetch", id, ErrorData(withData, project), "fetchError"),
                    ![p].result = Thrown("fetchError"),
                    ![p].pc = "done"]
    /\ UNCHANGED <<store, assets, nextId, nextUrl, calls, creates, imageCalls>>

\* line 127: await deleteProjectImage(project.image_url)
DeleteImage(p) ==
    /\ proc[p].pc = "delete_image"
    /\ LET url == proc[p].existing["image_url"] IN
       \E ok \in BOOLEAN :
        IF ok
        THEN /\ assets' = AssetsAfterDelete(url)
             /\ proc' = [proc EXCEPT ![p].log = Logged(p, "image_delete", url, Null, Null),
                                     ![p].pc = "delete_record"]
        ELSE /\ UNCHANGED assets
             /\ proc' = [proc EXCEPT
                    ![p].log = Logged(p, "image_delete", url, Null, "imageDeleteError"),
                    ![p].result = Thrown("imageDeleteError"),
                    ![p].pc = "done"]
    /\ UNCHANGED <<store, nextId, nextUrl, calls, creates, imageCalls>>

\* lines 131-141: delete().eq('id', projectId); true when the store reports no error
DeleteRecord(p) ==
    /\ proc[p].pc = "delete_record"
    /\ LET id == proc[p].projectId IN
       \E ok \in BOOLEAN :
        IF ok
        THEN /\ store' = [i \in (DOMAIN store) \ {id} |-> store[i]]
             /\ proc' = [proc EXCEPT ![p].log = Logged(p, "delete", id, Null, Null),
                                     ![p].result = Returned(TRUE),
                                     ![p].pc = "done"]
        ELSE /\ UNCHANGED store
             /\ proc' = [proc EXCEPT ![p].log = Logged(p, "delete", id, Null, "deleteError"),
                                     ![p].result = Thrown("deleteError"),
                                     ![p].pc = "done"]
    /\ UNCHANGED <<assets, nextId, nextUrl, calls, creates, imageCalls>>

\* the caller has its result; its locals are gone

Return(p) ==
    /\ proc[p].pc = "done"
    /\ proc' = [proc EXCEPT ![p] = Idle]
    /\ UNCHANGED <<store, assets, nextId, nextUrl, calls, creates, imageCalls>>

Next ==
    \E p \in Procs :
        \/ \E u \in CreateUsers, d \in CreateData : CallCreate(p, u, d)
        \/ CreateUpload(p)
        \/ CreateInsert(p)
        \/ \E a \in UpdateIds, d \in UpdateData : CallUpdate(p, a[1], a[2], d)
        \/ UpdateFetch(p)
        \/ UpdateDeleteImage(p)
        \/ UpdateUpload(p)
        \/ UpdateWrite(p)
        \/ \E c \in Users, i \in ProjectIds, s \in Statuses : CallStatus(p, c, i, s)
        \/ StatusWrite(p)
        \/ \E i \in ProjectIds : CallDelete(p, i)
        \/ DeleteFetch(p)
        \/ DeleteImage(p)
        \/ DeleteRecord(p)
        \/ Return(p)

Spec == Init /\ [][Next]_vars

\* ------------------------------------------------------------------ claims
Log(p) == proc[p].log
FetchedOk(p) ==
    /\ Len(Log(p)) >= 1
    /\ Log(p)[1].call = "fetch"
    /\ Log(p)[1].error = Null
ThrewMessage(p, msg) ==
    /\ proc[p].pc = "done"
    /\ proc[p].result.kind = "thrown"
    /\ proc[p].result.value = msg
HasReturned(p) == proc[p].pc = "done" /\ proc[p].result.kind = "returned"

\* userId is neither the row's created_by nor one of its members (members may be null)
NotPermitted(row, userId) ==
    /\ row["created_by"] # userId
    /\ \/ row["members"] = NullMembers
       \/ userId \notin row["members"]

\* C1: an updateProject call with non-empty ids whose fetch succeeded for a caller
\* who is neither created_by nor a member has failed with the permission error,
\* and the fetch is the only remote call it issued: no store update, no image
\* delete, no image upload.
C1_UnauthorizedUpdateDenied ==
    \A p \in Procs :
        (/\ proc[p].op = "update"
         /\ FetchedOk(p)
         /\ NotPermitted(proc[p].existing, proc[p].userId))
        => /\ ThrewMessage(p, "You don't have permission to update this project")
           /\ Len(Log(p)) = 1

C1_Witness ==
    \E p \in Procs :
        /\ proc[p].op = "update"
        /\ FetchedOk(p)
        /\ NotPermitted(proc[p].existing, proc[p].userId)
        /\ proc[p].existing["members"] = NullMembers
        /\ HasImage(proc[p].data)
        /\ Truthy(proc[p].existing["image_url"])
        /\ proc[p].pc = "done"

\* no invocation is between two of its remote calls
Quiescent == \A p \in Procs : proc[p].pc \in {"idle", "done"}

\* C2: after any sequence of calls, failed or not, every row of the store whose
\* image_url is present references an asset that exists in the image store.
C2_ImageUrlReferencesAsset ==
    Quiescent =>
        \A id \in DOMAIN store :
            Truthy(store[id]["image_url"]) => store[id]["image_url"] \in assets

\* an authorized updateProject call that supplies an image for a row with an image
ReplacesImage(p) ==
    /\ proc[p].op = "update"
    /\ FetchedOk(p)
    /\ ~NotPermitted(proc[p].existing, proc[p].userId)
    /\ HasImage(proc[p].data)
    /\ Truthy(proc[p].existing["image_url"])

\* C3: in an authorized updateProject call that supplies an image for a row whose
\* fetched image_url is set, the remote calls after the fetch are, in this order,
\* image-delete of the old url, image-upload of the new file, store update: the
\* upload only after the delete completed, the update only after the upload
\* returned, and the image_url written is the url the upload returned.
C3_DeleteUploadUpdateOrder ==
    \A p \in Procs :
        ReplacesImage(p) =>
            /\ proc[p].pc = "done" \/ proc[p].pc \in {"update_delete_image", "update_upload", "update_write"}
            /\ HasReturned(p) => Len(Log(p)) = 4
            /\ \A i \in 1..Len(Log(p)) :
                LET e == Log(p)[i] IN
                /\ e.call \in {"fetch", "image_delete", "image_upload", "update"}
                /\ e.call = "fetch" => i = 1
                /\ e.call = "image_delete" =>
                    /\ i = 2
                    /\ e.arg = proc[p].existing["image_url"]
                /\ e.call = "image_upload" =>
                    /\ i = 3
                    /\ Log(p)[2].call = "image_delete"
                    /\ Log(p)[2].error = Null
                    /\ e.arg = <<proc[p].userId, proc[p].data["image"]>>
                /\ e.call = "update" =>
                    /\ i = 4
                    /\ Log(p)[3].call = "image_upload"
                    /\ Log(p)[3].error = Null
                    /\ e.arg[1] = proc[p].projectId
                    /\ e.arg[2]["image_url"] = Log(p)[3].ret

C3_Witness ==
    \E p \in Procs :
        /\ ReplacesImage(p)
        /\ HasReturned(p)
        /\ Len(Log(p)) = 4
        /\ Log(p)[4].call = "update"
        /\ store[proc[p].projectId]["image_url"] = Log(p)[3].ret

ValidationMessages ==
    { "User ID is required to create a project",
      "Project ID is required to update a project",
      "User ID is required to update a project" }

\* the invocation was made with an empty identifier
EmptyIdCall(p) ==
    \/ proc[p].op = "create" /\ proc[p].userId = ""
    \/ proc[p].op = "update" /\ (proc[p].projectId = "" \/ proc[p].userId = "")

\* C7: createNewProject with an empty userId, and updateProject with an empty
\* projectId or an empty userId, have failed with the validation error without
\* issuing any remote call: no fetch, insert, update, image-upload or image-delete.
C7_ValidationBeforeEffects ==
    \A p \in Procs :
        EmptyIdCall(p) =>
            /\ proc[p].pc = "done"
            /\ proc[p].result.kind = "thrown"
            /\ proc[p].result.value \in ValidationMessages
            /\ Log(p) = <<>>

C7_Witness ==
    \E p \in Procs :
        /\ proc[p].op = "update"
        /\ proc[p].projectId # ""
        /\ proc[p].userId = ""
        /\ proc[p].projectId \in DOMAIN store
        /\ ThrewMessage(p, "User ID is required to update a project")

\* positions of the calls of one kind in an invocation's log
Positions(p, call) == {i \in 1..Len(Log(p)) : Log(p)[i].call = call}
NoFailure(p) == \A i \in 1..Len(Log(p)) : Log(p)[i].error = Null

\* the record deleteProject fetched exists and has a non-empty string image_url
FetchedImage(p) ==
    /\ proc[p].existing # EmptyObj
    /\ proc[p].existing["image_url"] \notin {Null, Undefined, ""}

\* C4: in a deleteProject call in which no remote call fails: if the fetched
\* record exists and has an image_url, image-delete of that url completes before
\* the record delete is issued; otherwise image-delete is never invoked; exactly
\* one record delete by id is issued and the call returns true, also when no
\* record with that id exists.
C4_DeleteOrderAndResult ==
    \A p \in Procs :
        (proc[p].op = "delete" /\ NoFailure(p)) =>
            /\ proc[p].pc # "done" => proc[p].result.kind = "none"
            /\ Cardinality(Positions(p, "delete")) <= 1
            /\ Positions(p, "fetch") \subseteq {1}
            /\ FetchedOk(p) /\ FetchedImage(p) =>
                /\ Positions(p, "image_delete") \subseteq {2}
                /\ Positions(p, "delete") \subseteq {3}
                /\ \A i \in Positions(p, "image_delete") :
                    Log(p)[i].arg = proc[p].existing["image_url"]
                /\ proc[p].pc = "done" => Len(Log(p)) = 3
            /\ FetchedOk(p) /\ ~FetchedImage(p) =>
                /\ Positions(p, "image_delete") = {}
                /\ Positions(p, "delete") \subseteq {2}
                /\ proc[p].pc = "done" => Len(Log(p)) = 2
            /\ proc[p].pc = "done" =>
                /\ proc[p].result.kind = "returned"
                /\ proc[p].result.value = TRUE
                /\ Cardinality(Positions(p, "delete")) = 1
                /\ \A i \in Positions(p, "delete") : Log(p)[i].arg = proc[p].projectId

\* one caller deleted a project with an image, another a project that is not there
C4_Witness ==
    \E p, q \in Procs :
        /\ proc[p].op = "delete" /\ HasReturned(p) /\ FetchedImage(p)
        /\ Len(Log(p)) = 3
        /\ proc[q].op = "delete" /\ HasReturned(q) /\ proc[q].existing = EmptyObj
        /\ Len(Log(q)) = 2
        /\ assets = {}

\* C5: the created_by of a row never changes while the row exists.
C5_CreatedByImmutable ==
    [][\A id \in (DOMAIN store) \cap (DOMAIN store') :
            store'[id]["created_by"] = store[id]["created_by"]]_vars

\* the step is a store update applied for caller p
AppliesUpdate(p) ==
    /\ proc[p].pc \in {"update_write", "status_write"}
    /\ proc'[p].pc = "done"
    /\ proc'[p].result.kind = "returned"

\* C6: a store update is applied only for a caller who is, when it is applied,
\* the row's created_by or one of its members.
C6_UpdatesOnlyByCreatorOrMember ==
    [][\A p \in Procs :
            AppliesUpdate(p) =>
                ~NotPermitted(store[proc[p].projectId], proc[p].caller)]_vars

\* C6, for updateProject alone and against the row as the call fetched it
C6_UpdateProjectCheckedAtFetch ==
    \A p \in Procs :
        (proc[p].op = "update" /\ Positions(p, "update") # {}) =>
            /\ FetchedOk(p)
            /\ ~NotPermitted(proc[p].existing, proc[p].userId)

\* the caller specified field f: it is present and neither null nor empty
Specified(data, f) ==
    /\ f \in DOMAIN data
    /\ IF f = "members" THEN data[f] # NullMembers ELSE data[f] \notin {Null, ""}

\* the record createNewProject is to insert, field by field
ReferenceRecord(userId, data, url) ==
    [title |-> data["title"],
     description |-> data["description"],
     status |-> IF Specified(data, "status") THEN data["status"] ELSE "planning",
     timeline_status |->
        IF Specified(data, "timeline_status") THEN data["timeline_status"] ELSE "ongoing",
     start_date |-> IF Specified(data, "start_date") THEN data["start_date"] ELSE Null,
     end_date |-> IF Specified(data, "end_date") THEN data["end_date"] ELSE Null,
     members |-> IF Specified(data, "members") THEN data["members"] ELSE {},
     created_by |-> userId,
     image_url |-> url]

\* C8: a successful createNewProject issued exactly one insert, of the reference
\* record: fields as given, status "planning" and timeline_status "ongoing" when
\* unspecified, dates absent and members empty when not given, created_by the
\* userId, image_url the url returned by the single image-upload made with
\* (userId, image) when an image is supplied, or null and no upload otherwise.
C8_CreateInsertsReferenceRecord ==
    \A p \in Procs :
        (proc[p].op = "create" /\ HasReturned(p)) =>
            LET data == proc[p].data
                ups == Positions(p, "image_upload")
                ins == Positions(p, "insert")
            IN  /\ Cardinality(ins) = 1
                /\ Positions(p, "image_delete") = {}
                /\ IF Specified(data, "image")
                   THEN /\ ups = {1} /\ ins = {2}
                        /\ Log(p)[1].arg = <<proc[p].userId, data["image"]>>
                        /\ Log(p)[2].arg =
                             ReferenceRecord(proc[p].userId, data, Log(p)[1].ret)
                   ELSE /\ ups = {} /\ ins = {1}
                        /\ Log(p)[1].arg = ReferenceRecord(proc[p].userId, data, Null)
                /\ \A f \in DOMAIN Log(p)[Len(Log(p))].arg :
                        proc[p].result.value[f] = Log(p)[Len(Log(p))].arg[f]

C8_Witness ==
    \E p \in Procs :
        /\ proc[p].op = "create" /\ HasReturned(p)
        /\ Specified(proc[p].data, "image")
        /\ ~Specified(proc[p].data, "status")
        /\ proc[p].result.value["status"] = "planning"
        /\ proc[p].result.value["timeline_status"] = "ongoing"
        /\ proc[p].result.value["image_url"] \in assets

\* C9: the store update of an updateProject call that supplied no image writes
\* the image_url the call fetched, whatever the row holds when the update is
\* applied.
C9_WriteCarriesFetchedImageUrl ==
    \A p \in Procs :
        (proc[p].op = "update" /\ ~HasImage(proc[p].data)) =>
            \A i \in Positions(p, "update") :
                /\ "image_url" \in DOMAIN Log(p)[i].arg[2]
                /\ Log(p)[i].arg[2]["image_url"] = proc[p].existing["image_url"]

\* C9: two authorized updateProject calls on the same project both fetched the
\* row before either wrote; q stored the url of its new image, and p, which
\* supplied no image, then wrote the url it had fetched over it.
C9_LostUpdate ==
    \E p, q \in Procs :
        /\ p # q
        /\ proc[p].op = "update" /\ HasReturned(p) /\ ~HasImage(proc[p].data)
        /\ proc[q].op = "update" /\ HasReturned(q) /\ HasImage(proc[q].data)
        /\ proc[p].projectId = proc[q].projectId
        /\ proc[p].existing["image_url"] = proc[q].existing["image_url"]
        /\ proc[q].result.value["image_url"] # proc[q].existing["image_url"]
        /\ proc[p].projectId \in DOMAIN store
        /\ store[proc[p].projectId]["image_url"] = proc[p].existing["image_url"]
        /\ store[proc[p].projectId]["image_url"] # proc[q].result.value["image_url"]

\* C10: in every invocation the first failed remote call is the last call of the
\* invocation, its error is what the caller gets, and no call is issued twice.
C10_FirstFailureEndsOperation ==
    \A p \in Procs :
        /\ \A i \in 1..Len(Log(p)) :
            Log(p)[i].error # Null =>
                /\ i = Len(Log(p))
                /\ ThrewMessage(p, Log(p)[i].error)
        /\ \A i, j \in 1..Len(Log(p)) : i # j => Log(p)[i].call # Log(p)[j].call

\* the delete of the old image failed in updateProject, and the fetch of
\* deleteProject failed with an error that came with data
C10_Witness ==
    \E p, q \in Procs :
        /\ proc[p].op = "update" /\ Len(Log(p)) = 2
        /\ Log(p)[2].call = "image_delete"
        /\ ThrewMessage(p, "imageDeleteError")
        /\ proc[q].op = "delete" /\ Len(Log(q)) = 1
        /\ Log(q)[1].call = "fetch"
        /\ Log(q)[1].ret # EmptyObj
        /\ ThrewMessage(q, "fetchError")
        /\ \A id \in DOMAIN store : store[id]["image_url"] \in assets
====
